---- MODULE Spec2Model ----
(***************************************************************************)
(* The HTTP/JSON server of src/server.ts: three SQLite tables (users,      *)
(* moods, chats), JWT session cookies and the nine /api routes, driven by  *)
(* clients that send whatever token cookie they choose; and the chat turn  *)
(* of the browser client (handleSendMessage, fetchData), whose requests    *)
(* travel to the server unawaited.                                         *)
(***************************************************************************)
EXTENDS Integers, Sequences, FiniteSets, TLC

VARIABLES
    users,      \* rows of table users, in rowid order
    moods,      \* rows of table moods, in rowid order
    chats,      \* rows of table chats, in rowid order
    moodSeq,    \* sqlite_sequence of moods: the largest rowid ever given
    chatSeq,    \* sqlite_sequence of chats: the largest rowid ever given
    now,        \* the store's clock (CURRENT_TIMESTAMP), in seconds
    issued,     \* history: every token jwt.sign has produced
    req,        \* the last request the server received
    res,        \* the response to it, and what its handler saw
    cookie,     \* the browser's token cookie
    appUser,    \* App state user: <<>> (null) or <<profile>>
    messages,   \* App state messages: the displayed conversation
    moodHistory,\* App state moodHistory
    isTyping,   \* App state isTyping
    turns,      \* per call of handleSendMessage that passed its guard:
                \* "responder" (awaiting the reply), "replied" or "threw"
    net,        \* fetch requests sent and not yet served
    fetched,    \* responses a fetchData call holds while its Promise.all waits
    applied     \* history: the fetchData calls that have set the state

svars == <<users, moods, chats, moodSeq, chatSeq, now, issued, req, res>>

cvars == <<cookie, appUser, messages, moodHistory, isTyping, turns, net, fetched, applied>>

vars == <<svars, cvars>>

---------------------------------------------------------------------------
\* Bounds of the model.

\* total number of rows ever inserted into chats and moods
MaxRows == 2
\* the clock stops advancing here
MaxTime == 1
\* chat turns the browser client starts
MaxTurns == 1

---------------------------------------------------------------------------
\* Inputs a client can send.

Emails == {"a@x.com", "b@x.com"}
Passwords == {"pw", "pw2"}
Names == {"A", "B"}
Salts == {"s1"}
\* bodies of POST /api/chats
ChatBodies ==
    {[role |-> "user", content |-> "hi"], [role |-> "bot", content |-> "**yo**"]}
\* seconds that may pass before a request is served
Delays == {0, 1}
\* the same, on a host whose wall clock may also be set back
ClockSteps == {-1, 0, 1}

\* the labels the client knows (MOOD_EMOJIS / MOOD_VALUES)
MoodKinds == {"Happy", "Neutral", "Stressed", "Sad", "Anxious", "Angry"}
\* what a client may put in the body of POST /api/moods
MoodBodies == {"Happy", "Banana"}

---------------------------------------------------------------------------
\* jsonwebtoken and bcryptjs, as far as the server uses them.

JWT_SECRET == "super-secret-key"
OtherSecret == "guessed-key"

\* jwt.sign(payload, secret): the payload with a MAC over it under secret.
\* (The iat field jsonwebtoken adds is left out.)
JwtSign(payload, secret) ==
    [kind |-> "jwt", payload |-> payload, sig |-> <<secret, payload>>]

\* jwt.verify(token, secret, cb): err unless token is a JWT whose MAC is
\* the one secret gives for its payload.
JwtVerify(token, secret) ==
    /\ token.kind = "jwt"
    /\ token.sig = <<secret, token.payload>>

\* no cookie named token; a cookie with the empty value
NoToken == [kind |-> "none"]
EmptyToken == [kind |-> "empty"]

\* !token of JavaScript: undefined and "" are falsy
Falsy(token) == token.kind \in {"none", "empty"}

\* bcrypt.hash(password, 10): a salted one-way hash
BcryptHash(password, salt) ==
    [salt |-> salt, digest |-> <<salt, password>>]

\* bcrypt.compare(password, hash): rehash under the hash's salt
BcryptCompare(password, hash) ==
    BcryptHash(password, hash.salt) = hash

---------------------------------------------------------------------------
\* The SQL statements.

Range(s) == {s[i] : i \in 1..Len(s)}

\* users.email declared without UNIQUE: no insert ever conflicts
EmailTakenNoUnique(table, email) == FALSE

\* UNIQUE on users.email
EmailTaken(table, email) == \E u \in Range(table) : u.email = email

\* INSERT INTO users (email, password, name) VALUES (?, ?, ?);
\* id INTEGER PRIMARY KEY AUTOINCREMENT (no row of users is ever deleted)
InsertUser(table, email, hashedPassword, name) ==
    Append(table, [id |-> Len(table) + 1, email |-> email,
                   password |-> hashedPassword, name |-> name])

\* SELECT * FROM users WHERE email = ?  (.get: the first row, or none)
SelectUserByEmail(table, email) ==
    SelectSeq(table, LAMBDA u : u.email = email)

\* FOREIGN KEY(user_id) REFERENCES users(id)
ForeignKeyOk(table, userId) == \E u \in Range(table) : u.id = userId

\* the insert with its arguments bound in the wrong order: owner and rowid swapped
InsertMoodWrongOwner(table, seq, userId, mood, ts) ==
    Append(table, [id |-> userId, user_id |-> seq + 1, mood |-> mood,
                   timestamp |-> ts])

\* INSERT INTO moods (user_id, mood) VALUES (?, ?)
InsertMood(table, seq, userId, mood, ts) ==
    Append(table, [id |-> seq + 1, user_id |-> userId, mood |-> mood,
                   timestamp |-> ts])

\* the insert with role and content bound in the wrong order
InsertChatSwapped(table, seq, userId, role, content, ts) ==
    Append(table, [id |-> seq + 1, user_id |-> userId, role |-> content,
                   content |-> role, timestamp |-> ts])

\* INSERT INTO chats (user_id, role, content) VALUES (?, ?, ?)
InsertChat(table, seq, userId, role, content, ts) ==
    Append(table, [id |-> seq + 1, user_id |-> userId, role |-> role,
                   content |-> content, timestamp |-> ts])

\* ORDER BY timestamp ASC: insertion sort, rows of equal timestamp in rowid order
RECURSIVE InsertByTimestamp(_, _)
InsertByTimestamp(sorted, row) ==
    IF sorted = <<>> THEN <<row>>
    ELSE IF sorted[Len(sorted)].timestamp <= row.timestamp
         THEN Append(sorted, row)
         ELSE Append(InsertByTimestamp(SubSeq(sorted, 1, Len(sorted) - 1), row),
                     sorted[Len(sorted)])

RECURSIVE OrderByTimestamp(_)
OrderByTimestamp(rows) ==
    IF rows = <<>> THEN <<>>
    ELSE InsertByTimestamp(OrderByTimestamp(SubSeq(rows, 1, Len(rows) - 1)),
                           rows[Len(rows)])

\* the select without its ORDER BY clause: rows in rowid order
SelectUnordered(table, userId) ==
    SelectSeq(table, LAMBDA r : r.user_id = userId)

\* the select without its WHERE clause
SelectNoWhere(table, userId) ==
    OrderByTimestamp(table)

\* SELECT * FROM <table> WHERE user_id = ? ORDER BY timestamp ASC
SelectByUser(table, userId) ==
    OrderByTimestamp(SelectSeq(table, LAMBDA r : r.user_id = userId))

\* the delete without its WHERE clause
DeleteNoWhere(table, userId) == <<>>

\* DELETE FROM chats WHERE user_id = ?
DeleteByUser(table, userId) ==
    SelectSeq(table, LAMBDA r : r.user_id # userId)

---------------------------------------------------------------------------
\* Requests and responses.  The three auth routes that need no session do
\* not read the cookie: their requests are recorded without one.

NoBody == [none |-> TRUE]

Request(op, token, body) == [op |-> op, token |-> token, body |-> body]

\* status, JSON body, the Set-Cookie header (<<>>: none, <<t>>: token=t),
\* the route handler that ran ("none": no handler) and the req.user it saw
Response(status, body, setCookie, handler, user) ==
    [status |-> status, body |-> body, cookie |-> setCookie,
     handler |-> handler, user |-> user]

ErrorBody(msg) == [error |-> msg]

Profile(id, email, name) == [id |-> id, email |-> email, name |-> name]

ProtectedOps ==
    {"GET /api/auth/me", "GET /api/moods", "POST /api/moods",
     "GET /api/chats", "POST /api/chats", "DELETE /api/chats"}

\* the middleware with jwt.decode in the place of jwt.verify: no signature check
authenticateTokenNoVerify(token) ==
    IF Falsy(token)
    THEN [next |-> FALSE, status |-> 401, body |-> ErrorBody("Unauthorized")]
    ELSE IF token.kind # "jwt"
    THEN [next |-> FALSE, status |-> 403, body |-> ErrorBody("Forbidden")]
    ELSE [next |-> TRUE, user |-> token.payload]

\* the middleware answering 401 to a token that does not verify
authenticateTokenAll401(token) ==
    IF Falsy(token)
    THEN [next |-> FALSE, status |-> 401, body |-> ErrorBody("Unauthorized")]
    ELSE IF ~JwtVerify(token, JWT_SECRET)
    THEN [next |-> FALSE, status |-> 401, body |-> ErrorBody("Forbidden")]
    ELSE [next |-> TRUE, user |-> token.payload]

\* authenticateToken: what the middleware does with the request's cookie
authenticateToken(token) ==
    IF Falsy(token)
    THEN [next |-> FALSE, status |-> 401, body |-> ErrorBody("Unauthorized")]
    ELSE IF ~JwtVerify(token, JWT_SECRET)
    THEN [next |-> FALSE, status |-> 403, body |-> ErrorBody("Forbidden")]
    ELSE [next |-> TRUE, user |-> token.payload]

\* the middleware answered: no handler runs
Rejected(auth) == Response(auth.status, auth.body, <<>>, "none", <<>>)

---------------------------------------------------------------------------
Init ==
    /\ users = <<>>
    /\ moods = <<>>
    /\ chats = <<>>
    /\ moodSeq = 0
    /\ chatSeq = 0
    /\ now = 0
    /\ issued = {}
    /\ req = Request("none", NoToken, NoBody)
    /\ res = Response(0, NoBody, <<>>, "none", <<>>)
    /\ cookie = NoToken
    /\ appUser = <<>>
    /\ messages = <<>>
    /\ moodHistory = <<>>
    /\ isTyping = FALSE
    /\ turns = <<>>
    /\ net = {}
    /\ fetched = {}
    /\ applied = {}

\* POST /api/auth/signup
Signup(email, password, name, salt) ==
    LET hashedPassword == BcryptHash(password, salt)
        id == Len(users) + 1
        signed == JwtSign(Profile(id, email, name), JWT_SECRET)
    IN  /\ req' = Request("POST /api/auth/signup", NoToken,
                          [email |-> email, password |-> password, name |-> name])
        /\ IF EmailTaken(users, email)
           THEN /\ res' = Response(400, ErrorBody("Email already exists"), <<>>,
                                   "signup", <<>>)
                /\ UNCHANGED <<users, issued>>
           ELSE /\ users' = InsertUser(users, email, hashedPassword, name)
                /\ issued' = issued \cup {signed}
                /\ res' = Response(200, Profile(id, email, name), <<signed>>,
                                   "signup", <<>>)
        /\ UNCHANGED <<moods, chats, moodSeq, chatSeq, now>>

\* login that answers an unknown email with its own error
LoginTellsUnknown(email, password) ==
    LET found == SelectUserByEmail(users, email)
        user == found[1]
        signed == JwtSign(Profile(user.id, user.email, user.name), JWT_SECRET)
    IN  /\ req' = Request("POST /api/auth/login", NoToken,
                          [email |-> email, password |-> password])
        /\ IF found = <<>>
           THEN /\ res' = Response(404, ErrorBody("User not found"), <<>>,
                                   "login", <<>>)
                /\ UNCHANGED issued
           ELSE IF ~BcryptCompare(password, user.password)
           THEN /\ res' = Response(401, ErrorBody("Invalid credentials"), <<>>,
                                   "login", <<>>)
                /\ UNCHANGED issued
           ELSE /\ issued' = issued \cup {signed}
                /\ res' = Response(200, Profile(user.id, user.email, user.name),
                                   <<signed>>, "login", <<>>)
        /\ UNCHANGED <<users, moods, chats, moodSeq, chatSeq, now>>

\* POST /api/auth/login
Login(email, password) ==
    LET found == SelectUserByEmail(users, email)
        user == found[1]
        signed == JwtSign(Profile(user.id, user.email, user.name), JWT_SECRET)
    IN  /\ req' = Request("POST /api/auth/login", NoToken,
                          [email |-> email, password |-> password])
        /\ IF found = <<>> \/ ~BcryptCompare(password, user.password)
           THEN /\ res' = Response(401, ErrorBody("Invalid credentials"), <<>>,
                                   "login", <<>>)
                /\ UNCHANGED issued
           ELSE /\ issued' = issued \cup {signed}
                /\ res' = Response(200, Profile(user.id, user.email, user.name),
                                   <<signed>>, "login", <<>>)
        /\ UNCHANGED <<users, moods, chats, moodSeq, chatSeq, now>>

\* logout that also drops the conversation log
LogoutClearsChats ==
    /\ req' = Request("POST /api/auth/logout", NoToken, NoBody)
    /\ res' = Response(200, [message |-> "Logged out"], <<NoToken>>, "logout", <<>>)
    /\ chats' = <<>>
    /\ UNCHANGED <<users, moods, moodSeq, chatSeq, now, issued>>

\* POST /api/auth/logout: res.clearCookie("token")
Logout ==
    /\ req' = Request("POST /api/auth/logout", NoToken, NoBody)
    /\ res' = Response(200, [message |-> "Logged out"], <<NoToken>>, "logout", <<>>)
    /\ UNCHANGED <<users, moods, chats, moodSeq, chatSeq, now, issued>>

\* GET /api/auth/me
GetMe(token) ==
    LET auth == authenticateToken(token)
    IN  /\ req' = Request("GET /api/auth/me", token, NoBody)
        /\ res' = IF auth.next
                  THEN Response(200, auth.user, <<>>, "me", <<auth.user>>)
                  ELSE Rejected(auth)
        /\ UNCHANGED <<users, moods, chats, moodSeq, chatSeq, now, issued>>

\* GET /api/moods
GetMoods(token) ==
    LET auth == authenticateToken(token)
    IN  /\ req' = Request("GET /api/moods", token, NoBody)
        /\ res' = IF auth.next
                  THEN Response(200, SelectByUser(moods, auth.user.id), <<>>,
                                "getMoods", <<auth.user>>)
                  ELSE Rejected(auth)
        /\ UNCHANGED <<users, moods, chats, moodSeq, chatSeq, now, issued>>

\* POST /api/moods, served when the clock has moved by delay since the last insert
PostMoods(token, mood, delay) ==
    LET auth == authenticateToken(token)
    IN  /\ req' = Request("POST /api/moods", token, [mood |-> mood])
        /\ IF ~auth.next
           THEN /\ res' = Rejected(auth)
                /\ UNCHANGED <<moods, moodSeq, now>>
           ELSE IF ~ForeignKeyOk(users, auth.user.id)
           THEN /\ res' = Response(500, ErrorBody("FOREIGN KEY constraint failed"),
                                   <<>>, "postMoods", <<auth.user>>)
                /\ UNCHANGED <<moods, moodSeq, now>>
           ELSE /\ now' = now + delay
                /\ moods' = InsertMood(moods, moodSeq, auth.user.id, mood, now')
                /\ moodSeq' = moodSeq + 1
                /\ res' = Response(200, [success |-> TRUE], <<>>, "postMoods",
                                   <<auth.user>>)
        /\ UNCHANGED <<users, chats, chatSeq, issued>>

\* GET /api/chats
GetChats(token) ==
    LET auth == authenticateToken(token)
    IN  /\ req' = Request("GET /api/chats", token, NoBody)
        /\ res' = IF auth.next
                  THEN Response(200, SelectByUser(chats, auth.user.id), <<>>,
                                "getChats", <<auth.user>>)
                  ELSE Rejected(auth)
        /\ UNCHANGED <<users, moods, chats, moodSeq, chatSeq, now, issued>>

\* POST /api/chats, served when the clock has moved by delay since the last insert
PostChats(token, body, delay) ==
    LET auth == authenticateToken(token)
    IN  /\ req' = Request("POST /api/chats", token, body)
        /\ IF ~auth.next
           THEN /\ res' = Rejected(auth)
                /\ UNCHANGED <<chats, chatSeq, now>>
           ELSE IF ~ForeignKeyOk(users, auth.user.id)
           THEN /\ res' = Response(500, ErrorBody("FOREIGN KEY constraint failed"),
                                   <<>>, "postChats", <<auth.user>>)
                /\ UNCHANGED <<chats, chatSeq, now>>
           ELSE /\ now' = now + delay
                /\ chats' = InsertChat(chats, chatSeq, auth.user.id, body.role,
                                       body.content, now')
                /\ chatSeq' = chatSeq + 1
                /\ res' = Response(200, [success |-> TRUE], <<>>, "postChats",
                                   <<auth.user>>)
        /\ UNCHANGED <<users, moods, moodSeq, issued>>

\* DELETE /api/chats
DeleteChats(token) ==
    LET auth == authenticateToken(token)
    IN  /\ req' = Request("DELETE /api/chats", token, NoBody)
        /\ IF ~auth.next
           THEN /\ res' = Rejected(auth)
                /\ UNCHANGED chats
           ELSE /\ chats' = DeleteByUser(chats, auth.user.id)
                /\ res' = Response(200, [success |-> TRUE], <<>>, "deleteChats",
                                   <<auth.user>>)
        /\ UNCHANGED <<users, moods, moodSeq, chatSeq, now, issued>>

\* A token signed under a key that is not the server's.
ForgedToken == JwtSign(Profile(1, "a@x.com", "A"), OtherSecret)

\* req.cookies.token is whatever the client sends: nothing, an empty value,
\* a token the server signed at any time, or a token of its own making.
Presentable == {NoToken, EmptyToken, ForgedToken} \cup issued

\* The bounds: an insert that the validator lets through is modelled only
\* while fewer than MaxRows rows were ever inserted and the clock stays in
\* 0..MaxTime.
WithinBounds(token, delay) ==
    authenticateToken(token).next =>
        /\ chatSeq + moodSeq < MaxRows
        /\ now + delay \in 0..MaxTime

\* The routes that need no session, with every credential, and one that does.
AuthNext ==
    \/ \E e \in Emails, p \in Passwords, n \in Names, s \in Salts :
            Signup(e, p, n, s) /\ UNCHANGED cvars
    \/ \E e \in Emails, p \in Passwords : Login(e, p) /\ UNCHANGED cvars
    \/ Logout /\ UNCHANGED cvars
    \/ \E t \in Presentable : GetMe(t) /\ UNCHANGED cvars

AuthSpec == Init /\ [][AuthNext]_vars

\* Every route; each email signs up under one password and one name.
Next ==
    \/ \E e \in Emails : Signup(e, "pw", "A", "s1") /\ UNCHANGED cvars
    \/ \E e \in Emails, p \in Passwords : Login(e, p) /\ UNCHANGED cvars
    \/ Logout /\ UNCHANGED cvars
    \/ \E t \in Presentable : GetMe(t) /\ UNCHANGED cvars
    \/ \E t \in Presentable : GetMoods(t) /\ UNCHANGED cvars
    \/ \E t \in Presentable, m \in MoodBodies, d \in Delays :
            WithinBounds(t, d) /\ PostMoods(t, m, d) /\ UNCHANGED cvars
    \/ \E t \in Presentable : GetChats(t) /\ UNCHANGED cvars
    \/ \E t \in Presentable, b \in ChatBodies, d \in Delays :
            WithinBounds(t, d) /\ PostChats(t, b, d) /\ UNCHANGED cvars
    \/ \E t \in Presentable : DeleteChats(t) /\ UNCHANGED cvars

Spec == Init /\ [][Next]_vars

\* The log routes under valid sessions, on a host whose clock may be set back
\* between two inserts.
ClockNext ==
    \/ \E e \in Emails : Signup(e, "pw", "A", "s1") /\ UNCHANGED cvars
    \/ \E t \in issued : GetMoods(t) /\ UNCHANGED cvars
    \/ \E t \in issued, m \in MoodBodies, d \in ClockSteps :
            WithinBounds(t, d) /\ PostMoods(t, m, d) /\ UNCHANGED cvars
    \/ \E t \in issued : GetChats(t) /\ UNCHANGED cvars
    \/ \E t \in issued, b \in ChatBodies, d \in ClockSteps :
            WithinBounds(t, d) /\ PostChats(t, b, d) /\ UNCHANGED cvars
    \/ \E t \in issued : DeleteChats(t) /\ UNCHANGED cvars

ClockSpec == Init /\ [][ClockNext]_vars

---------------------------------------------------------------------------
\* The browser client (App).  A fetch that is not awaited is a request in
\* net, served at any later step and in any order with the others.  The
\* client-side timestamp of a displayed message is left out.

\* what the user types in turn t, and what the responder answers to it
UserInput(t) == "msg" \o ToString(t)
BotReply(t) == "reply" \o ToString(t)

\* the moods the responder may classify a message as
ResponderMoods == {"Happy", "Stressed"}

\* userMessage and botMessage of turn t
UserMessage(t) == [role |-> "user", content |-> UserInput(t)]
BotMessage(t, mood) == [role |-> "bot", content |-> BotReply(t), mood |-> mood]

\* fetch(path, {method, body}) issued by call number t (0: by handleAuth)
Fetch(t, op, body) == [turn |-> t, op |-> op, body |-> body]

\* fetchData: the two GET requests of its Promise.all
FetchDataRequests(t) ==
    {Fetch(t, "GET /api/chats", NoBody), Fetch(t, "GET /api/moods", NoBody)}

\* handleAuth in signup mode: the signup, setUser(data) and fetchData()
HandleAuthSignup(email, password, name, salt) ==
    /\ appUser = <<>>
    /\ Signup(email, password, name, salt)
    /\ IF res'.status = 200
       THEN /\ cookie' = res'.cookie[1]
            /\ appUser' = <<res'.body>>
            /\ net' = net \cup FetchDataRequests(0)
       ELSE UNCHANGED <<cookie, appUser, net>>
    /\ UNCHANGED <<messages, moodHistory, isTyping, turns, fetched, applied>>

\* handleSendMessage up to its await: the guard, the user's message shown,
\* isTyping set, the POST of the user's message sent and not awaited
SendMessage ==
    LET t == Len(turns) + 1
    IN  /\ appUser # <<>>
        /\ Len(turns) < MaxTurns
        /\ ~isTyping
        /\ messages' = Append(messages, UserMessage(t))
        /\ isTyping' = TRUE
        /\ net' = net \cup {Fetch(t, "POST /api/chats", UserMessage(t))}
        /\ turns' = Append(turns, "responder")
        /\ UNCHANGED <<svars, cookie, appUser, moodHistory, fetched, applied>>

\* analyzeSentimentAndRespond resolves and handleSendMessage runs to its end:
\* the reply shown, isTyping reset, the two POSTs sent and not awaited
ResponderReturns(t, mood) ==
    /\ t \in 1..Len(turns)
    /\ turns[t] = "responder"
    /\ messages' = Append(messages, BotMessage(t, mood))
    /\ isTyping' = FALSE
    /\ net' = net \cup {Fetch(t, "POST /api/chats", BotMessage(t, mood)),
                         Fetch(t, "POST /api/moods", [mood |-> mood])}
    /\ turns' = [turns EXCEPT ![t] = "replied"]
    /\ UNCHANGED <<svars, cookie, appUser, moodHistory, fetched, applied>>

\* analyzeSentimentAndRespond rejects: the await throws out of
\* handleSendMessage, which has no try around it
ResponderFails(t) ==
    /\ t \in 1..Len(turns)
    /\ turns[t] = "responder"
    /\ turns' = [turns EXCEPT ![t] = "threw"]
    /\ UNCHANGED <<svars, cookie, appUser, messages, moodHistory, isTyping,
                   net, fetched, applied>>

\* the server serves a POST /api/chats of the client; nothing awaits its response
ServeChatPost(m, delay) ==
    /\ m \in net
    /\ m.op = "POST /api/chats"
    /\ now + delay \in 0..MaxTime
    /\ PostChats(cookie, m.body, delay)
    /\ net' = net \ {m}
    /\ UNCHANGED <<cookie, appUser, messages, moodHistory, isTyping, turns,
                   fetched, applied>>

\* the server serves the POST /api/moods; its response starts fetchData
ServeMoodPost(m, delay) ==
    /\ m \in net
    /\ m.op = "POST /api/moods"
    /\ now + delay \in 0..MaxTime
    /\ PostMoods(cookie, m.body.mood, delay)
    /\ net' = (net \ {m}) \cup FetchDataRequests(m.turn)
    /\ UNCHANGED <<cookie, appUser, messages, moodHistory, isTyping, turns,
                   fetched, applied>>

\* the server serves one GET of a fetchData call, which keeps the response
ServeGetChats(m) ==
    /\ m \in net
    /\ m.op = "GET /api/chats"
    /\ GetChats(cookie)
    /\ net' = net \ {m}
    /\ fetched' = fetched \cup {[turn |-> m.turn, op |-> m.op, res |-> res']}
    /\ UNCHANGED <<cookie, appUser, messages, moodHistory, isTyping, turns, applied>>

ServeGetMoods(m) ==
    /\ m \in net
    /\ m.op = "GET /api/moods"
    /\ GetMoods(cookie)
    /\ net' = net \ {m}
    /\ fetched' = fetched \cup {[turn |-> m.turn, op |-> m.op, res |-> res']}
    /\ UNCHANGED <<cookie, appUser, messages, moodHistory, isTyping, turns, applied>>

\* fetchData after its Promise.all: setMessages and setMoodHistory with the
\* bodies of the responses that are ok
FetchDataApply(c, m) ==
    /\ c \in fetched /\ c.op = "GET /api/chats"
    /\ m \in fetched /\ m.op = "GET /api/moods"
    /\ c.turn = m.turn
    /\ messages' = IF c.res.status = 200 THEN c.res.body ELSE messages
    /\ moodHistory' = IF m.res.status = 200 THEN m.res.body ELSE moodHistory
    /\ fetched' = fetched \ {c, m}
    /\ applied' = applied \cup {c.turn}
    /\ UNCHANGED <<svars, cookie, appUser, isTyping, turns, net>>

\* One browser signs up and chats; the server serves what it sent.
ClientNext ==
    \/ HandleAuthSignup("a@x.com", "pw", "A", "s1")
    \/ SendMessage
    \/ \E t \in 1..MaxTurns, mood \in ResponderMoods : ResponderReturns(t, mood)
    \/ \E t \in 1..MaxTurns : ResponderFails(t)
    \/ \E m \in net, d \in Delays : ServeChatPost(m, d)
    \/ \E m \in net, d \in Delays : ServeMoodPost(m, d)
    \/ \E m \in net : ServeGetChats(m)
    \/ \E m \in net : ServeGetMoods(m)
    \/ \E c \in fetched, m \in fetched : FetchDataApply(c, m)

ClientSpec == Init /\ [][ClientNext]_vars

---------------------------------------------------------------------------
\* Properties.  Every step of either specification is one request, and it
\* records itself in req' and res'; a step whose req' names a route is a
\* request to that route.

\* the user row holding email, as a set (empty when the email is not registered)
RowsOfEmail(email) == {i \in 1..Len(users) : users[i].email = email}

\* C1: once a signup with email e has succeeded (a token for e was issued),
\* every later signup with e, whatever its password and name, is answered
\* 400 "Email already exists", leaves the users table as it was, sets no
\* cookie and signs no token.
C1_DuplicateSignupRejected ==
    [][(/\ req'.op = "POST /api/auth/signup"
        /\ \E t \in issued : t.payload.email = req'.body.email)
       => /\ res'.status = 400
          /\ res'.body = ErrorBody("Email already exists")
          /\ users' = users
          /\ res'.cookie = <<>>
          /\ issued' = issued]_vars

\* C1 witness: a signup was refused for an email whose row carries another
\* password than the one the refused request sent.
C1_Witness ==
    /\ req.op = "POST /api/auth/signup"
    /\ res.status = 400
    /\ \E i \in RowsOfEmail(req.body.email) :
            ~BcryptCompare(req.body.password, users[i].password)

\* the answer to a failed login
InvalidCredentials ==
    Response(401, ErrorBody("Invalid credentials"), <<>>, "login", <<>>)

\* the last request was a login with a registered email and a wrong password
WrongPasswordLogin ==
    /\ req.op = "POST /api/auth/login"
    /\ \E i \in RowsOfEmail(req.body.email) :
            users[i].password # BcryptHash(req.body.password, users[i].password.salt)

\* the last request was a login with an email no row holds
UnknownEmailLogin ==
    /\ req.op = "POST /api/auth/login"
    /\ RowsOfEmail(req.body.email) = {}

\* C2: a login with a registered email and a wrong password and a login
\* with an unregistered email get the same response: 401, the body
\* "Invalid credentials", no cookie.
C2_LoginFailuresIdentical ==
    (WrongPasswordLogin \/ UnknownEmailLogin) => res = InvalidCredentials

\* C2 witness: a login with a registered email and a wrong password failed
\* while another email is still unregistered.
C2_Witness ==
    /\ WrongPasswordLogin
    /\ res.status = 401
    /\ Len(users) = 1

\* the last request went to a route behind authenticateToken
ProtectedRequest == req.op \in ProtectedOps

\* C3: a request to a protected route with no token (none, or an empty one)
\* is answered "Unauthorized" and one with a token the server never signed
\* "Forbidden", no handler runs for either and no table changes; a handler
\* that runs was given a token the server signed and sees that token's
\* {id, email, name} as req.user.
C3_ValidatorGuardsHandlers ==
    /\ [](ProtectedRequest =>
            /\ Falsy(req.token) =>
                    res.handler = "none" /\ res.body = ErrorBody("Unauthorized")
            /\ (~Falsy(req.token) /\ req.token \notin issued) =>
                    res.handler = "none" /\ res.body = ErrorBody("Forbidden")
            /\ res.handler # "none" =>
                    req.token \in issued /\ res.user = <<req.token.payload>>)
    /\ [][(req'.op \in ProtectedOps /\ res'.handler = "none")
            => UNCHANGED <<users, chats, moods>>]_vars

\* C3 witness: a POST /api/chats carrying a forged token was refused while
\* the chats table held a row.
C3_Witness ==
    /\ req.op = "POST /api/chats"
    /\ req.token = ForgedToken
    /\ res.handler = "none"
    /\ res.body = ErrorBody("Forbidden")
    /\ chats # <<>>

\* C7 as stated: every protected request the validator rejects is answered 401.
C7_RejectedIs401 ==
    (ProtectedRequest /\ res.handler = "none") => res.status = 401

\* C7, amended: a protected request the validator rejects is answered 401
\* when it carries no token (none, or an empty one) and 403 when it carries
\* a token that does not verify.
C7_Rejected401Or403 ==
    (ProtectedRequest /\ res.handler = "none") =>
        res.status = IF Falsy(req.token) THEN 401 ELSE 403

\* C7 witness: a protected request with a token that does not verify was
\* answered 403.
C7_Witness ==
    /\ ProtectedRequest
    /\ ~Falsy(req.token)
    /\ res.handler = "none"
    /\ res.status = 403

\* the rows of table owned by userId / by anyone else, in rowid order
OwnedBy(table, userId) == SelectSeq(table, LAMBDA r : r.user_id = userId)
NotOwnedBy(table, userId) == SelectSeq(table, LAMBDA r : r.user_id # userId)

\* rows and table hold the same rows, each once
SameRows(rows, table) ==
    /\ Len(rows) = Len(table)
    /\ Range(rows) = Range(table)

\* C4: the body of a successful GET /api/chats (GET /api/moods) made with
\* user A's token holds every stored chat (mood) row whose user_id is A's
\* id, each once, and no other row.
C4_ListReturnsOwnRowsOnly ==
    /\ (req.op = "GET /api/chats" /\ res.status = 200) =>
            SameRows(res.body, OwnedBy(chats, req.token.payload.id))
    /\ (req.op = "GET /api/moods" /\ res.status = 200) =>
            SameRows(res.body, OwnedBy(moods, req.token.payload.id))

\* C4 witness: a GET /api/chats returned a row while the table also held a
\* row of another user.
C4_Witness ==
    /\ req.op = "GET /api/chats"
    /\ res.status = 200
    /\ res.body # <<>>
    /\ NotOwnedBy(chats, req.token.payload.id) # <<>>

\* C5: a successful DELETE /api/chats made with user A's token leaves no
\* chat row owned by A and leaves the chat rows of every other user as
\* they were, in the same order.
C5_ClearRemovesExactlyOwnRows ==
    [][(req'.op = "DELETE /api/chats" /\ res'.status = 200)
       => /\ OwnedBy(chats', req'.token.payload.id) = <<>>
          /\ NotOwnedBy(chats', req'.token.payload.id)
                = NotOwnedBy(chats, req'.token.payload.id)]_vars

\* C5 witness: a DELETE /api/chats succeeded, rows were removed by it and a
\* chat row of another user is still stored.
C5_Witness ==
    /\ req.op = "DELETE /api/chats"
    /\ res.status = 200
    /\ chats # <<>>
    /\ Len(chats) < chatSeq

\* C6: a logout leaves the users, chats and moods tables as they were, and
\* in every state, before or after any logout, the validator accepts every
\* token the server has signed: a protected request presenting one is never
\* rejected.
C6_LogoutRevokesNothing ==
    /\ [][req'.op = "POST /api/auth/logout"
            => UNCHANGED <<users, chats, moods>>]_vars
    /\ [](\A t \in issued : authenticateToken(t).next)
    /\ []((ProtectedRequest /\ req.token \in issued) => res.handler # "none")

\* C6 witness: a logout was answered while tokens were out and every table
\* held a row.
C6_Witness ==
    /\ req.op = "POST /api/auth/logout"
    /\ res.status = 200
    /\ issued # {}
    /\ chats # <<>>
    /\ moods # <<>>

\* C8: after a successful POST /api/chats {role, content} made with user
\* A's token, what GET /api/chats selects for A holds a row with that role
\* and that content, and every chat row stored before is still stored with
\* the same fields.
C8_AppendRoundTrip ==
    [][(req'.op = "POST /api/chats" /\ res'.status = 200)
       => /\ \E r \in Range(SelectByUser(chats', req'.token.payload.id)) :
                r.role = req'.body.role /\ r.content = req'.body.content
          /\ SubSeq(chats', 1, Len(chats)) = chats]_vars

\* C8 witness: a POST /api/chats succeeded for a user who had a row with
\* another content stored already.
C8_Witness ==
    /\ req.op = "POST /api/chats"
    /\ res.status = 200
    /\ \E r \in Range(OwnedBy(chats, req.token.payload.id)) :
            r.content # req.body.content

\* C9: the user_id of every chat row and of every mood row is the id of
\* exactly one row of the users table.
C9_RowsBelongToOneUser ==
    \A r \in Range(chats) \cup Range(moods) :
        Cardinality({i \in 1..Len(users) : users[i].id = r.user_id}) = 1

\* C9 witness: both log tables hold a row, of different users.
C9_Witness ==
    /\ chats # <<>>
    /\ moods # <<>>
    /\ chats[1].user_id # moods[1].user_id

\* C10: the mood of every stored mood row is one of the enumerated kinds.
C10_MoodLabelsEnumerated ==
    \A m \in Range(moods) : m.mood \in MoodKinds

\* rows is in non-decreasing timestamp order
TimestampOrdered(rows) ==
    \A i \in 1..Len(rows), j \in 1..Len(rows) :
        i < j => rows[i].timestamp <= rows[j].timestamp

\* C11: the body of every successful GET /api/chats and GET /api/moods is
\* in non-decreasing timestamp order, whatever inserts and clears came
\* before and whatever the clock showed at each insert.
C11_ListsInTimestampOrder ==
    (req.op \in {"GET /api/chats", "GET /api/moods"} /\ res.status = 200)
        => TimestampOrdered(res.body)

\* C11 witness: a GET /api/chats returned two rows of which the one
\* inserted later comes first, its timestamp being the smaller.
C11_Witness ==
    /\ req.op = "GET /api/chats"
    /\ res.status = 200
    /\ Len(res.body) = 2
    /\ res.body[1].id > res.body[2].id
    /\ res.body[1].timestamp < res.body[2].timestamp

---------------------------------------------------------------------------
\* Properties of the client's chat turn.

\* the positions in rows of the rows with this role and content
RowsWith(rows, role, content) ==
    {i \in 1..Len(rows) : rows[i].role = role /\ rows[i].content = content}

\* the turns whose responder call has returned a reply
RepliedTurns == {t \in 1..Len(turns) : turns[t] = "replied"}

\* C12: in the stored log the user's message of a turn is inserted before
\* the bot reply of that turn, and a bot reply or a mood entry is stored
\* only for a turn whose responder call has returned.
C12_UserRowBeforeBotRow ==
    /\ \A t \in 1..Len(turns) :
          \A b \in RowsWith(chats, "bot", BotReply(t)) :
            /\ turns[t] = "replied"
            /\ \E u \in RowsWith(chats, "user", UserInput(t)) :
                    chats[u].id < chats[b].id
    /\ Len(moods) <= Cardinality(RepliedTurns)

\* C13: once no call of handleSendMessage is waiting for the responder any
\* more, whether the responder returned or failed, isTyping is false.
C13_TypingResetWhenTurnEnds ==
    (\A t \in 1..Len(turns) : turns[t] # "responder") => ~isTyping

\* every request of turn t has been served and its fetchData has set the state
TurnComplete(t) ==
    /\ t \in RepliedTurns
    /\ t \in applied
    /\ \A m \in net \cup fetched : m.turn # t

\* C14: once every request of a turn has completed, the displayed list
\* holds the user's message and the bot reply of that turn.
C14_RefreshKeepsTurnMessages ==
    \A t \in 1..Len(turns) :
        TurnComplete(t) =>
            /\ RowsWith(messages, "user", UserInput(t)) # {}
            /\ RowsWith(messages, "bot", BotReply(t)) # {}

====
